---- MODULE Spec2Model ----
(***************************************************************************)
(* State-machine model of the USB redirection channel                      *)
(* (channel-usbredir.c): connect / access-grant callback / disconnect /    *)
(* channel_up / inbound dispatch / write_flush, with the external          *)
(* collaborators (libusb, usbredirhost, the event-listening coordinator,   *)
(* the acl helper, the GLib idle queue) reduced to the state the channel   *)
(* can observe.                                                            *)
(*                                                                         *)
(* Handlers that run on the controlling context (main loop / coroutine)    *)
(* are atomic actions.  The write_flush callback may also run on the usb   *)
(* event thread; there its state test and its engine call are two steps.   *)
(*                                                                         *)
(* The g_return_if_fail checks on the arguments of connect_async           *)
(* (channel, context, device not NULL) are preconditions: connect is only  *)
(* ever given a context and a device.  Collaborators keep their contract:  *)
(* a failing libusb_open / usbredirhost_open_full /                        *)
(* start_event_listening reports an error.                                 *)
(***************************************************************************)
EXTENDS Integers, Sequences, FiniteSets, TLC

\* ---- bounds of the model
MaxConnects == 2      \* connect_async invocations in one behaviour
MaxLen      == 2      \* largest payload of an inbound message, and largest
                      \* count the engine asks the read callback for
InitRef     == 1      \* reference count of a device before the channel touches it

\* ---- values
Devices  == {"d1", "d2"}
Contexts == {"ctx"}
NULL     == "NULL"
OpIds    == 1..MaxConnects

\* enum SpiceUsbredirChannelState
States == {"STATE_DISCONNECTED", "STATE_WAITING_FOR_ACL_HELPER",
           "STATE_CONNECTING", "STATE_CONNECTED", "STATE_DISCONNECTING"}

\* outcome of the three fallible steps of open_device: the first one failing
OpenEnvs == {"ok", "open_fail", "engine_fail", "listen_fail"}

\* errors a grant can report by itself, and all results of a grant
GrantErrors  == {"AccessGrantFailed_E1", "AccessGrantFailed_E2"}
GrantResults == {"ok"} \cup GrantErrors

\* message types: one below the redirection-data type, the redirection-data
\* type itself, one beyond the handler table
SPICE_MSG_SPICEVMC_DATA == 101
N_usbredir_handlers     == SPICE_MSG_SPICEVMC_DATA + 1
MsgTypes == {SPICE_MSG_SPICEVMC_DATA - 1, SPICE_MSG_SPICEVMC_DATA,
             SPICE_MSG_SPICEVMC_DATA + 1}

VARIABLES
    usePolkit,      \* build configuration USE_POLKIT
    \* struct _SpiceUsbredirChannelPrivate
    state, context, device, host, result, acl_helper, read_buf, read_buf_size,
    \* collaborators
    refcount,       \* libusb reference count of each device
    listening,      \* registrations held with the event-listening coordinator
    inhibit,        \* session property inhibit-keyboard-grab
    aclReq,         \* the acl helper's request: [st, helper, res]
    idleQ,          \* results whose completion waits in the idle queue
    \* connect invocations (GSimpleAsyncResult objects), by id
    nextOp, opErr, cbCount,
    refBefore,      \* reference count of the device, taken before connect took its own
    dispatch,       \* usbredirhost_read_guest_data in progress: [active, size, sum]
    \* usb event thread inside usbredir_write_flush_callback: where it is, and
    \* the priv->host it may have loaded when it tested the state
    usbPc, usbSeen,
    \* the last handler that ran, and the collaborator calls it made, in order
    last, calls

priv  == <<state, context, device, host, result, acl_helper, read_buf, read_buf_size>>
env   == <<refcount, listening, inhibit, aclReq, idleQ>>
ops   == <<nextOp, opErr, cbCount, refBefore>>
vars  == <<usePolkit, priv, env, ops, dispatch, usbPc, usbSeen, last, calls>>

NoDispatch == [active |-> FALSE, size |-> 0, sum |-> 0]

NoAcl == [st |-> "none", helper |-> 0, res |-> "ok"]

Init ==
    /\ usePolkit \in BOOLEAN
    /\ state = "STATE_DISCONNECTED"
    /\ context = NULL
    /\ device = NULL
    /\ host = 0
    /\ result = 0
    /\ acl_helper = 0
    /\ read_buf = 0
    /\ read_buf_size = 0
    /\ refcount = [d \in Devices |-> InitRef]
    /\ listening = 0
    /\ inhibit = FALSE
    /\ aclReq = NoAcl
    /\ idleQ = <<>>
    /\ nextOp = 1
    /\ opErr = [i \in OpIds |-> "none"]
    /\ cbCount = [i \in OpIds |-> 0]
    /\ refBefore = InitRef
    /\ dispatch = NoDispatch
    /\ usbPc = "idle"
    /\ usbSeen = 0
    /\ last = [op |-> "init", id |-> 0, env |-> "-", pre |-> "STATE_DISCONNECTED",
                size |-> 0, sum |-> 0]
    /\ calls = <<>>

\* the record kept of a handler run: its name, the connect invocation, the
\* message type or the count it was about, the collaborators' outcome it met
\* (for a completion: the outcome it delivered), the state it found, and for
\* the steps of a dispatch the payload size (for a read: the bytes returned)
\* and the sum of the read-callback returns so far
Did(op, id, e) ==
    [op |-> op, id |-> id, env |-> e, pre |-> state, size |-> 0, sum |-> 0]

\* ---------------------------------------------------------------------------
\* spice_usbredir_channel_open_device

\* g_return_val_if_fail at the top of open_device
OpenDeviceStateOk(st) ==
    \/ st = "STATE_DISCONNECTED"
    \/ (usePolkit /\ st = "STATE_WAITING_FOR_ACL_HELPER")

\* (variant: the engine is closed but priv->host keeps the stale pointer)
HostAfterListenFail_stale(id) == id

\* priv->host after start_event_listening failed: closed and cleared
HostAfterListenFail(id) == 0

\* (variant: the state is set as if the transport were already up)
OpenDeviceSuccessState_connected == "STATE_CONNECTED"

\* priv->state at the end of a successful open_device
OpenDeviceSuccessState == "STATE_CONNECTING"

\* The outcome of open_device called in state st for connect invocation id,
\* when the collaborators behave as e: whether it returned TRUE, the error it
\* set, priv->host and priv->state afterwards, the registrations it added and
\* the collaborator calls it made.
spice_usbredir_channel_open_device(st, id, e) ==
    IF ~OpenDeviceStateOk(st) THEN
        [ok |-> FALSE, err |-> "none", host |-> 0, state |-> st, listen |-> 0,
         calls |-> <<>>]
    ELSE IF e = "open_fail" THEN
        [ok |-> FALSE, err |-> "DeviceOpenFailed", host |-> 0, state |-> st,
         listen |-> 0, calls |-> <<"libusb_open">>]
    ELSE IF e = "engine_fail" THEN
        [ok |-> FALSE, err |-> "EngineInitFailed", host |-> 0, state |-> st,
         listen |-> 0, calls |-> <<"libusb_open", "usbredirhost_open_full">>]
    ELSE IF e = "listen_fail" THEN
        [ok |-> FALSE, err |-> "EventRegistrationFailed",
         host |-> HostAfterListenFail(id), state |-> st, listen |-> 0,
         calls |-> <<"libusb_open", "usbredirhost_open_full",
                     "start_event_listening", "usbredirhost_close">>]
    ELSE
        [ok |-> TRUE, err |-> "none", host |-> id, state |-> OpenDeviceSuccessState,
         listen |-> 1,
         calls |-> <<"libusb_open", "usbredirhost_open_full",
                     "start_event_listening", "spice_channel_connect">>]

\* ---------------------------------------------------------------------------
\* spice_usbredir_channel_connect_async

\* (variant: only an established connection counts as busy)
ConnectBusy_connectedOnly(st) == st \in {"STATE_CONNECTING", "STATE_CONNECTED"}

\* the busy test
ConnectBusy(st) == st # "STATE_DISCONNECTED"

\* (variant: the failure path forgets libusb_unref_device)
ConnectReleases_never(ok) == FALSE

\* whether connect_async drops the reference it took: when open_device failed
ConnectReleases(ok) == ~ok

spice_usbredir_channel_connect_async(ctx, dev, e) ==
    /\ nextOp <= MaxConnects
    /\ ~dispatch.active
    /\ LET id == nextOp IN
       /\ nextOp' = nextOp + 1
       /\ refBefore' = IF ConnectBusy(state) THEN refBefore ELSE refcount[dev]
       /\ UNCHANGED <<cbCount, usbPc, usbSeen, usePolkit, read_buf, read_buf_size, dispatch>>
       /\ IF ConnectBusy(state) THEN
             \* "Error channel is busy"; goto done
             /\ opErr' = [opErr EXCEPT ![id] = "Busy"]
             /\ idleQ' = Append(idleQ, id)
             /\ last' = Did("connect", id, "-")
             /\ calls' = <<"complete_in_idle">>
             /\ UNCHANGED <<state, context, device, host, result, acl_helper,
                            refcount, listening, inhibit, aclReq>>
          ELSE IF usePolkit THEN
             /\ context' = ctx
             /\ device' = dev
             /\ refcount' = [refcount EXCEPT ![dev] = @ + 1]
             /\ result' = id
             /\ state' = "STATE_WAITING_FOR_ACL_HELPER"
             /\ acl_helper' = id
             /\ inhibit' = TRUE
             /\ aclReq' = [st |-> "pending", helper |-> id, res |-> "ok"]
             /\ last' = Did("connect", id, "-")
             /\ calls' = <<"libusb_ref_device", "inhibit_keyboard_grab_TRUE",
                           "open_acl">>
             /\ UNCHANGED <<host, listening, idleQ, opErr>>
          ELSE
             LET od == spice_usbredir_channel_open_device(state, id, e) IN
             /\ context' = IF ConnectReleases(od.ok) THEN NULL ELSE ctx
             /\ device' = IF ConnectReleases(od.ok) THEN NULL ELSE dev
             /\ refcount' = [refcount EXCEPT ![dev] =
                                IF ConnectReleases(od.ok) THEN @ + 1 - 1 ELSE @ + 1]
             /\ host' = od.host
             /\ state' = od.state
             /\ listening' = listening + od.listen
             /\ opErr' = [opErr EXCEPT ![id] = od.err]
             /\ idleQ' = Append(idleQ, id)
             /\ last' = Did("connect", id, e)
             /\ calls' = <<"libusb_ref_device">> \o od.calls \o
                          (IF ConnectReleases(od.ok)
                           THEN <<"libusb_unref_device">> ELSE <<>>) \o
                          <<"complete_in_idle">>
             /\ UNCHANGED <<result, acl_helper, inhibit, aclReq>>

\* ---------------------------------------------------------------------------
\* the acl helper (usb-acl-helper.c): the request is pending until the helper
\* resolves it; closing a pending request resolves it as cancelled; the
\* callback of a resolved request runs from the main loop

AclResolve(r) ==
    /\ aclReq.st = "pending"
    /\ aclReq' = [aclReq EXCEPT !.st = "resolved", !.res = r]
    /\ last' = Did("acl_resolve", aclReq.helper, r)
    /\ calls' = <<>>
    /\ UNCHANGED <<usePolkit, priv, refcount, listening, inhibit, idleQ, ops,
                   dispatch, usbPc, usbSeen>>

spice_usb_acl_helper_close_acl(req) ==
    IF req.st = "pending"
    THEN [req EXCEPT !.st = "resolved", !.res = "Cancelled"]
    ELSE req

\* ---------------------------------------------------------------------------
\* spice_usbredir_channel_open_acl_cb

\* (variant: no cancellation error is made up for a disconnect meanwhile)
AclCbError_noCancel(grantRes, st) == IF grantRes # "ok" THEN grantRes ELSE "none"

\* (variant: the helper's error is dropped and a cancellation reported instead)
AclCbError_dropsError(grantRes, st) ==
    IF grantRes # "ok" \/ st = "STATE_DISCONNECTING" THEN "Cancelled" ELSE "none"

\* err after open_acl_finish and the test for a disconnect meanwhile
AclCbError(grantRes, st) ==
    IF grantRes # "ok" THEN grantRes
    ELSE IF st = "STATE_DISCONNECTING" THEN "Cancelled"
    ELSE "none"

\* (variant: the result is completed on the error path and again at the end)
AclCbComplete_twice(res) == <<res, res>>

\* the results completed in idle at the end of the callback
AclCbComplete(res) == <<res>>

\* (variant: the cleanup is skipped for a cancellation)
AclCbReleases_notOnCancel(err) == err \notin {"none", "Cancelled"}

\* whether the callback drops the device reference: when err is set
AclCbReleases(err) == err # "none"

\* (variant: the completion is signalled before the helper is released)
AclCbTailCalls_completeFirst ==
    <<"complete_in_idle", "close_acl", "inhibit_keyboard_grab_FALSE">>

\* the collaborator calls at the end of the callback, in order
AclCbTailCalls ==
    <<"close_acl", "inhibit_keyboard_grab_FALSE", "complete_in_idle">>

spice_usbredir_channel_open_acl_cb(e) ==
    /\ aclReq.st = "resolved"
    /\ ~dispatch.active
    /\ UNCHANGED <<usePolkit, nextOp, cbCount, refBefore, usbPc, usbSeen, dispatch,
                   read_buf, read_buf_size>>
    /\ IF \/ aclReq.helper # acl_helper
          \/ state \notin {"STATE_WAITING_FOR_ACL_HELPER", "STATE_DISCONNECTING"}
       THEN \* g_return_if_fail
          /\ aclReq' = NoAcl
          /\ last' = Did("acl_cb", result, "-")
          /\ calls' = <<>>
          /\ UNCHANGED <<state, context, device, host, result, acl_helper,
                         refcount, listening, inhibit, idleQ, opErr>>
       ELSE
          LET err1 == AclCbError(aclReq.res, state)
              od   == IF err1 = "none"
                      THEN spice_usbredir_channel_open_device(state, result, e)
                      ELSE [ok |-> FALSE, err |-> err1, host |-> host,
                            state |-> state, listen |-> 0, calls |-> <<>>]
              err  == od.err
          IN
          /\ opErr' = IF err # "none" THEN [opErr EXCEPT ![result] = err] ELSE opErr
          /\ refcount' = IF AclCbReleases(err)
                         THEN [refcount EXCEPT ![device] = @ - 1]
                         ELSE refcount
          /\ device' = IF AclCbReleases(err) THEN NULL ELSE device
          /\ context' = IF AclCbReleases(err) THEN NULL ELSE context
          /\ state' = IF AclCbReleases(err) THEN "STATE_DISCONNECTED" ELSE od.state
          /\ host' = od.host
          /\ listening' = listening + od.listen
          /\ aclReq' = NoAcl
          /\ acl_helper' = 0
          /\ inhibit' = FALSE
          /\ idleQ' = idleQ \o AclCbComplete(result)
          /\ result' = 0
          /\ last' = Did("acl_cb", result, IF err1 = "none" THEN e ELSE aclReq.res)
          /\ calls' = <<"open_acl_finish">> \o od.calls \o
                       (IF AclCbReleases(err)
                        THEN <<"libusb_unref_device">> ELSE <<>>) \o
                       AclCbTailCalls

\* ---------------------------------------------------------------------------
\* spice_usbredir_channel_disconnect

\* (variant: the teardown branch forgets to set the state)
DisconnectState_keeps(st) ==
    IF st = "STATE_WAITING_FOR_ACL_HELPER" THEN "STATE_DISCONNECTING" ELSE st

\* the state disconnect leaves behind
DisconnectState(st) ==
    IF st = "STATE_WAITING_FOR_ACL_HELPER" THEN "STATE_DISCONNECTING"
    ELSE IF st \in {"STATE_CONNECTING", "STATE_CONNECTED"} THEN "STATE_DISCONNECTED"
    ELSE st

\* (variant: a channel still in the handshake is not torn down)
DisconnectTearsDown_connectedOnly(st) == st = "STATE_CONNECTED"

\* (variant: the teardown branch also takes a channel waiting for the grant)
DisconnectTearsDown_alsoWaiting(st) ==
    st \in {"STATE_WAITING_FOR_ACL_HELPER", "STATE_CONNECTING", "STATE_CONNECTED"}

\* the states in which disconnect tears the engine and the device down
DisconnectTearsDown(st) == st \in {"STATE_CONNECTING", "STATE_CONNECTED"}

\* (variant: the device is dropped before the engine that uses it is closed)
DisconnectTeardownCalls_unrefFirst ==
    <<"spice_channel_disconnect", "stop_event_listening",
      "libusb_unref_device", "usbredirhost_close">>

\* the collaborator calls of the teardown branch, in order
DisconnectTeardownCalls ==
    <<"spice_channel_disconnect", "stop_event_listening",
      "usbredirhost_close", "libusb_unref_device">>

spice_usbredir_channel_disconnect ==
    /\ ~dispatch.active
    /\ last' = Did("disconnect", 0, "-")
    /\ state' = DisconnectState(state)
    /\ UNCHANGED <<usePolkit, result, acl_helper, read_buf, read_buf_size,
                   inhibit, idleQ, ops, dispatch, usbPc, usbSeen>>
    /\ IF DisconnectTearsDown(state) THEN
          /\ calls' = DisconnectTeardownCalls
          /\ listening' = listening - 1
          /\ host' = 0
          /\ refcount' = IF device \in Devices
                         THEN [refcount EXCEPT ![device] = @ - 1] ELSE refcount
          /\ device' = NULL
          /\ context' = NULL
          /\ UNCHANGED aclReq
       ELSE IF state = "STATE_WAITING_FOR_ACL_HELPER" THEN
          /\ calls' = <<"close_acl">>
          /\ aclReq' = spice_usb_acl_helper_close_acl(aclReq)
          /\ UNCHANGED <<context, device, host, refcount, listening>>
       ELSE
          /\ calls' = <<>>
          /\ UNCHANGED <<context, device, host, refcount, listening, aclReq>>

\* spice_usbredir_channel_get_device
spice_usbredir_channel_get_device == device

\* ---------------------------------------------------------------------------
\* usbredir_write_flush_callback

\* (variant: the test lets the handshake window through as well)
WriteFlushGoes_connecting(st) == st \in {"STATE_CONNECTING", "STATE_CONNECTED"}

\* the state test of write_flush: whether it goes on to the engine
WriteFlushGoes(st) == st = "STATE_CONNECTED"

\* on the controlling context (the engine calls it from inside its own entry
\* points, and from inside usbredirhost_open_full)
usbredir_write_flush_callback ==
    /\ last' = Did("write_flush", 0, "-")
    /\ calls' = IF WriteFlushGoes(state)
                THEN <<"usbredirhost_write_guest_data">> ELSE <<>>
    /\ UNCHANGED <<usePolkit, priv, env, ops, dispatch, usbPc, usbSeen>>

\* on the usb event thread, which the engine's transfers run on: the state
\* test, then the engine call
UsbFlushCheck ==
    /\ usbPc = "idle"
    /\ host # 0
    /\ usbPc' = IF WriteFlushGoes(state) THEN "call" ELSE "idle"
    /\ usbSeen' = IF WriteFlushGoes(state) THEN host ELSE 0
    /\ last' = Did("usb_write_flush", 0, "-")
    /\ calls' = <<>>
    /\ UNCHANGED <<usePolkit, priv, env, ops, dispatch>>

\* what the engine pointer handed to usbredirhost_write_guest_data refers to
EngineArg(arg) ==
    IF arg = 0 THEN "absent" ELSE IF arg = host THEN "open" ELSE "closed"

\* priv->host is read without synchronisation: the call gets the value of the
\* field now, or the one loaded at the state test
UsbFlushCall(arg) ==
    /\ usbPc = "call"
    /\ arg \in {host, usbSeen}
    /\ usbPc' = "idle"
    /\ usbSeen' = 0
    /\ last' = Did("usb_write_flush_call", arg, EngineArg(arg))
    /\ calls' = <<"usbredirhost_write_guest_data">>
    /\ UNCHANGED <<usePolkit, priv, env, ops, dispatch>>

\* ---------------------------------------------------------------------------
\* spice_usbredir_channel_up

\* (variant: the state is set without the g_return_if_fail test)
ChannelUpState_unguarded(st) == "STATE_CONNECTED"

\* priv->state after channel_up
ChannelUpState(st) == IF st = "STATE_CONNECTING" THEN "STATE_CONNECTED" ELSE st

spice_usbredir_channel_up ==
    /\ ~dispatch.active
    /\ state' = ChannelUpState(state)
    /\ calls' = IF state = "STATE_CONNECTING"
                THEN <<"usbredirhost_write_guest_data">> ELSE <<"g_critical">>
    /\ last' = Did("channel_up", 0, "-")
    /\ UNCHANGED <<usePolkit, context, device, host, result, acl_helper, read_buf,
                   read_buf_size, env, ops, dispatch, usbPc, usbSeen>>

\* ---------------------------------------------------------------------------
\* spice_usbredir_handle_msg and usbredir_handle_msg

\* the handler table: the entry of a type inside the table
usbredir_handlers(type) ==
    IF type = SPICE_MSG_SPICEVMC_DATA THEN "usbredir_handle_msg" ELSE "NULL"

\* (variant: no range test; a type beyond the table is taken for an empty entry)
Route_noRangeTest(type) ==
    IF type = SPICE_MSG_SPICEVMC_DATA THEN "usbredir_handle_msg"
    ELSE "parent_handle_msg"

\* where spice_usbredir_handle_msg routes a message type
Route(type) ==
    IF ~(type < N_usbredir_handlers) THEN "g_return_if_fail"
    ELSE IF usbredir_handlers(type) # "NULL" THEN usbredir_handlers(type)
    ELSE "parent_handle_msg"

\* the address spice_msg_in_raw returns for the payload
BufAddr == 1

\* (variant: the recursion test is missing)
DispatchAllowed_noRecursionTest(h, buf) == h # 0

\* the two g_return_if_fail tests of usbredir_handle_msg
DispatchAllowed(h, buf) == h # 0 /\ buf = 0

\* A message of the given type and payload size arrives; it may arrive while
\* the engine is still inside usbredirhost_read_guest_data for an earlier
\* one.  A redirection-data message that passes the two checks of
\* usbredir_handle_msg stakes its payload and enters
\* usbredirhost_read_guest_data, which then calls the read callback
\* (EngineRead) until it returns (EngineReturn).  dispatch.active tells that
\* the engine is inside usbredirhost_read_guest_data; size and sum are those
\* of the payload staked last.
spice_usbredir_handle_msg(type, size) ==
    /\ UNCHANGED <<usePolkit, state, context, device, host, result, acl_helper,
                   env, ops, usbPc, usbSeen>>
    /\ IF Route(type) = "usbredir_handle_msg" /\ DispatchAllowed(host, read_buf) THEN
          /\ read_buf' = BufAddr
          /\ read_buf_size' = size
          /\ dispatch' = [active |-> TRUE, size |-> size, sum |-> 0]
          /\ calls' = <<"usbredirhost_read_guest_data">>
          /\ last' = [Did("handle_msg", type, "dispatched") EXCEPT !.size = size]
       ELSE
          /\ UNCHANGED <<read_buf, read_buf_size, dispatch>>
          /\ calls' = IF Route(type) = "parent_handle_msg"
                      THEN <<"parent_handle_msg">> ELSE <<"g_critical">>
          /\ last' = Did("handle_msg", type,
                         IF Route(type) = "usbredir_handle_msg" THEN "rejected"
                         ELSE Route(type))

\* ---------------------------------------------------------------------------
\* usbredir_read_callback, called by the engine during a dispatch

\* one call of the read callback on the view (buf, size) for count bytes
usbredir_read_callback(buf, size, count) ==
    LET c == IF size < count THEN size ELSE count
        s == size - c
    IN [ret |-> c, read_buf |-> IF s # 0 THEN buf + c ELSE 0, read_buf_size |-> s]

EngineRead(count) ==
    /\ dispatch.active
    /\ LET r == usbredir_read_callback(read_buf, read_buf_size, count) IN
       /\ read_buf' = r.read_buf
       /\ read_buf_size' = r.read_buf_size
       /\ dispatch' = [dispatch EXCEPT !.sum = @ + r.ret]
       /\ last' = [Did("read_callback", count, "-") EXCEPT
                      !.size = r.ret, !.sum = dispatch.sum + r.ret]
    /\ calls' = <<>>
    /\ UNCHANGED <<usePolkit, state, context, device, host, result, acl_helper,
                   env, ops, usbPc, usbSeen>>

\* usbredirhost_read_guest_data returns to usbredir_handle_msg, which returns
EngineReturn ==
    /\ dispatch.active
    /\ dispatch' = NoDispatch
    /\ last' = [Did("dispatch_done", 0, "-") EXCEPT
                   !.size = dispatch.size, !.sum = dispatch.sum]
    /\ calls' = <<>>
    /\ UNCHANGED <<usePolkit, priv, env, ops, usbPc, usbSeen>>

\* ---------------------------------------------------------------------------
\* the main loop runs the head of the idle queue: the completion callback,
\* which calls spice_usbredir_channel_connect_finish; the result object is
\* freed afterwards

spice_usbredir_channel_connect_finish(id) == opErr[id]

IdleDispatch ==
    /\ idleQ # <<>>
    /\ ~dispatch.active
    /\ LET id == Head(idleQ) IN
       /\ cbCount' = [cbCount EXCEPT ![id] = @ + 1]
       /\ last' = Did("idle", id, spice_usbredir_channel_connect_finish(id))
       /\ opErr' = [opErr EXCEPT ![id] = "freed"]
    /\ idleQ' = Tail(idleQ)
    /\ calls' = <<>>
    /\ UNCHANGED <<usePolkit, priv, refcount, listening, inhibit, aclReq,
                   nextOp, refBefore, dispatch, usbPc, usbSeen>>

\* ---------------------------------------------------------------------------
Next ==
    \/ \E ctx \in Contexts, dev \in Devices, e \in OpenEnvs :
           spice_usbredir_channel_connect_async(ctx, dev, e)
    \/ \E r \in GrantResults : AclResolve(r)
    \/ \E e \in OpenEnvs : spice_usbredir_channel_open_acl_cb(e)
    \/ spice_usbredir_channel_disconnect
    \/ spice_usbredir_channel_up
    \/ usbredir_write_flush_callback
    \/ UsbFlushCheck
    \/ \E arg \in 0..MaxConnects : UsbFlushCall(arg)
    \/ \E type \in MsgTypes, size \in 0..MaxLen :
           spice_usbredir_handle_msg(type, size)
    \/ \E count \in 1..MaxLen : EngineRead(count)
    \/ EngineReturn
    \/ IdleDispatch

Spec == Init /\ [][Next]_vars

\* the main loop runs pending idle callbacks, the engine returns from a
\* dispatch, and the acl helper answers and then calls back
FairSpec ==
    /\ Spec
    /\ SF_vars(IdleDispatch)
    /\ WF_vars(EngineReturn)
    /\ WF_vars(\E r \in GrantResults : AclResolve(r))
    /\ SF_vars(\E e \in OpenEnvs : spice_usbredir_channel_open_acl_cb(e))

\* ===========================================================================
\* Properties

AllReleased == refcount = [d \in Devices |-> InitRef]

InQueue(i) == \E k \in 1..Len(idleQ) : idleQ[k] = i

\* the errors of a failed acquisition
FailErrors == {"DeviceOpenFailed", "EngineInitFailed", "EventRegistrationFailed",
               "Cancelled"} \cup GrantErrors

\* a completed result keeps its outcome until the idle queue delivers it, and
\* the delivery hands over that outcome
DeliversOutcome ==
    \A i \in OpIds :
        (InQueue(i) /\ opErr'[i] # opErr[i]) =>
            /\ last'.op = "idle" /\ last'.id = i /\ last'.env = opErr[i]
            /\ idleQ # <<>> /\ Head(idleQ) = i

\* ---------------------------------------------------------------------------
\* C1: a connect call made in a state other than Disconnected fails at once
\* with Busy, queued on that call's own result and delivered as Busy, and
\* leaves the channel as it was: same state, same device and context, no
\* reference taken on any device, same engine, same pending result and acl
\* request of an earlier connect.
C1_BusyConnectChangesNothing ==
    /\ [][(nextOp' = nextOp + 1 /\ state # "STATE_DISCONNECTED") =>
            /\ opErr'[nextOp] = "Busy"
            /\ idleQ' = Append(idleQ, nextOp)
            /\ UNCHANGED <<priv, refcount, listening, inhibit, aclReq, dispatch>>
            /\ \A i \in OpIds : i # nextOp => opErr'[i] = opErr[i]]_vars
    /\ [][\A i \in OpIds : (opErr[i] = "Busy" /\ opErr'[i] # "Busy") =>
            (last'.op = "idle" /\ last'.id = i /\ last'.env = "Busy")]_vars

C1_Witness ==
    /\ last.op = "connect"
    /\ last.pre = "STATE_DISCONNECTING"
    /\ opErr[last.id] = "Busy"
    /\ state = "STATE_DISCONNECTING"

\* ---------------------------------------------------------------------------
\* C2 (as stated): after two disconnect calls in succession the state is
\* Disconnected.
C2_TwiceYieldsDisconnected ==
    [][(last.op = "disconnect" /\ last'.op = "disconnect") =>
          state' = "STATE_DISCONNECTED"]_vars

NumOf(c, sq) == Cardinality({k \in 1..Len(sq) : sq[k] = c})

\* C2 (amended): a second disconnect call in succession changes nothing and
\* releases nothing; the state it leaves is Disconnected, or Disconnecting
\* when the first call found WaitingForAccessGrant or Disconnecting; no
\* disconnect call releases the device reference or the engine more than
\* once, and no reference count drops below its value before connect.
C2_DisconnectIdempotent ==
    /\ [][(last.op = "disconnect" /\ last'.op = "disconnect") =>
            /\ UNCHANGED <<priv, env, ops, dispatch>>
            /\ calls' = <<>>
            /\ state' \in {"STATE_DISCONNECTED", "STATE_DISCONNECTING"}
            /\ (state' = "STATE_DISCONNECTING" <=>
                   last.pre \in {"STATE_WAITING_FOR_ACL_HELPER",
                                 "STATE_DISCONNECTING"})]_vars
    /\ [][last'.op = "disconnect" =>
            /\ NumOf("libusb_unref_device", calls') <= 1
            /\ NumOf("usbredirhost_close", calls') <= 1
            /\ \A d \in Devices :
                  refcount'[d] = refcount[d] -
                      (IF d = device THEN NumOf("libusb_unref_device", calls')
                       ELSE 0)]_vars
    /\ [](\A d \in Devices : refcount[d] >= InitRef)

C2_Witness ==
    /\ last.op = "disconnect"
    /\ last.pre = "STATE_DISCONNECTING"
    /\ state = "STATE_DISCONNECTING"
    /\ calls = <<>>

\* ---------------------------------------------------------------------------
\* C3: every connect invocation has its completion callback delivered exactly
\* once: never twice, and (the main loop running its idle callbacks and the
\* acl helper calling back) eventually once; a delivery is never undone.
\* Deliveries never being undone, "eventually once" for every invocation is
\* stated as: again and again every invocation made so far is delivered.
C3_CompletionExactlyOnce ==
    /\ [](\A i \in OpIds : cbCount[i] <= 1 /\ (cbCount[i] = 1 => i < nextOp))
    /\ [][\A i \in OpIds : cbCount'[i] >= cbCount[i]]_vars
    /\ []<>(\A i \in OpIds : i < nextOp => cbCount[i] = 1)

C3_Witness ==
    /\ nextOp > MaxConnects
    /\ \A i \in OpIds : cbCount[i] = 1
    /\ last.op = "idle"
    /\ last.env = "Cancelled"

\* ---------------------------------------------------------------------------
\* C4: at the step in which an acquisition fails (device open, engine
\* construction, event registration, grant failure, cancellation) the
\* reference count of the device is back at its value before connect was
\* called, the other devices' counts are untouched and the channel holds no
\* device; no count ever drops below its initial value.
C4_FailedAcquisitionRestoresRefcount ==
    /\ [][\A i \in OpIds :
            (opErr[i] = "none" /\ opErr'[i] \in FailErrors) =>
               /\ device' = NULL
               /\ IF last'.op = "connect"
                  THEN refcount' = refcount
                  ELSE /\ device \in Devices
                       /\ refBefore = refcount[device] - 1
                       /\ refcount' = [refcount EXCEPT ![device] = refBefore]]_vars
    /\ [](\A d \in Devices : refcount[d] >= InitRef)
    /\ [](state = "STATE_DISCONNECTED" => AllReleased)

C4_Witness ==
    /\ last.op = "acl_cb"
    /\ last.env = "listen_fail"
    /\ opErr[last.id] = "EventRegistrationFailed"
    /\ AllReleased

\* ---------------------------------------------------------------------------
\* C5: the engine exists exactly when the state is Connecting or Connected.
C5_EngineIffConnectingOrConnected ==
    (host # 0) <=> (state \in {"STATE_CONNECTING", "STATE_CONNECTED"})

C5_Witness ==
    /\ last.op = "connect"
    /\ last.env = "listen_fail"
    /\ host = 0
    /\ state = "STATE_DISCONNECTED"

\* ---------------------------------------------------------------------------
\* C6 (as stated): when the grant callback runs in Disconnecting, the error
\* carried into the completion is a cancellation error whatever the grant
\* result was.
C6_AlwaysCancelled ==
    (last.op = "acl_cb" /\ last.pre = "STATE_DISCONNECTING") =>
        opErr[last.id] = "Cancelled"

\* C6 (amended): when the grant callback runs in Disconnecting, the connect
\* completion always carries an error: the grant's own error when the grant
\* reported one, and a cancellation error when the grant succeeded.
C6_CancelledUnlessGrantError ==
    (last.op = "acl_cb" /\ last.pre = "STATE_DISCONNECTING") =>
        /\ opErr[last.id] = (IF last.env = "ok" THEN "Cancelled" ELSE last.env)
        /\ opErr[last.id] # "none"
        /\ state = "STATE_DISCONNECTED"

C6_Witness ==
    /\ last.op = "acl_cb"
    /\ last.pre = "STATE_DISCONNECTING"
    /\ last.env = "ok"
    /\ opErr[last.id] = "Cancelled"

\* ---------------------------------------------------------------------------
\* C7: the acl helper calling back, a channel in Disconnecting eventually
\* is Disconnected with no device held and every reference released;
\* Disconnecting is left for Disconnected only.
C7_DisconnectingReachesDisconnected ==
    /\ (state = "STATE_DISCONNECTING") ~>
          (state = "STATE_DISCONNECTED" /\ device = NULL /\ AllReleased)
    /\ [][state = "STATE_DISCONNECTING" =>
            state' \in {"STATE_DISCONNECTING", "STATE_DISCONNECTED"}]_vars
    /\ [][(state = "STATE_DISCONNECTING" /\ state' = "STATE_DISCONNECTED") =>
            (device' = NULL /\ AllReleased')]_vars

C7_Witness ==
    /\ last.op = "acl_cb"
    /\ last.pre = "STATE_DISCONNECTING"
    /\ last.env = "Cancelled"
    /\ state = "STATE_DISCONNECTED"
    /\ device = NULL
    /\ AllReleased

\* ---------------------------------------------------------------------------
\* C8: without the acl helper, a connect from Disconnected whose device open,
\* engine construction and event registration succeed queues a completion
\* without error, which is delivered as success, and leaves the state
\* Connecting; channel_up in Connecting makes the state Connected.
C8_PlainConnectSucceeds ==
    /\ [][(~usePolkit /\ nextOp' = nextOp + 1 /\ state = "STATE_DISCONNECTED"
              /\ last'.env = "ok") =>
            /\ state' = "STATE_CONNECTING"
            /\ opErr'[nextOp] = "none"
            /\ idleQ' = Append(idleQ, nextOp)]_vars
    /\ [][DeliversOutcome]_vars
    /\ [][(last'.op = "channel_up" /\ state = "STATE_CONNECTING") =>
            state' = "STATE_CONNECTED"]_vars

C8_Witness ==
    /\ ~usePolkit
    /\ last.op = "channel_up"
    /\ last.pre = "STATE_CONNECTING"
    /\ state = "STATE_CONNECTED"
    /\ cbCount[host] = 1

\* ---------------------------------------------------------------------------
\* C9: when the grant fails with error E and disconnect was not called, the
\* completion carries exactly E (and is delivered as E), the state is
\* Disconnected, the device reference is released and the callback made no
\* attempt to open the device.
C9_GrantFailureCarriesE ==
    /\ []((last.op = "acl_cb" /\ last.pre = "STATE_WAITING_FOR_ACL_HELPER"
             /\ last.env \in GrantErrors) =>
            /\ opErr[last.id] = last.env
            /\ InQueue(last.id)
            /\ state = "STATE_DISCONNECTED"
            /\ device = NULL /\ AllReleased
            /\ host = 0
            /\ NumOf("libusb_open", calls) = 0)
    /\ [][DeliversOutcome]_vars

C9_Witness ==
    /\ last.op = "acl_cb"
    /\ last.pre = "STATE_WAITING_FOR_ACL_HELPER"
    /\ last.env = "AccessGrantFailed_E2"
    /\ opErr[last.id] = "AccessGrantFailed_E2"
    /\ state = "STATE_DISCONNECTED"

\* ---------------------------------------------------------------------------
\* C10: write_flush called in a state other than Connected, on either
\* context, calls nothing and changes nothing.
C10_WriteFlushNoOpUnlessConnected ==
    [][(last'.op \in {"write_flush", "usb_write_flush"}
          /\ state # "STATE_CONNECTED") =>
        /\ calls' = <<>>
        /\ UNCHANGED <<priv, env, ops, dispatch, usbPc, usbSeen>>]_vars

C10_Witness ==
    /\ last.op = "write_flush"
    /\ last.pre = "STATE_CONNECTING"
    /\ calls = <<>>
    /\ state = "STATE_CONNECTING"

\* ---------------------------------------------------------------------------
\* C11 (as stated): whatever the interleaving of the usb event thread's
\* write_flush with a disconnect on the main context, the engine's flush entry
\* point is only ever called on the open engine of the channel, never on an
\* absent or a closed one.
C11_FlushOnlyOnOpenEngine ==
    /\ last.op = "usb_write_flush_call" => last.env = "open"
    /\ (last.op = "write_flush" /\ calls # <<>>) => host # 0

\* ---------------------------------------------------------------------------
\* C12 (as stated): every return of the read callback is
\* min(requested, remaining), and when a dispatch returns the returns made
\* for its payload sum to the payload length and the view is empty.
C12_DispatchDrainsExactly ==
    /\ last.op = "read_callback" =>
          LET before == read_buf_size + last.size IN
          last.size = IF last.id < before THEN last.id ELSE before
    /\ last.op = "dispatch_done" =>
          /\ last.sum = last.size
          /\ read_buf = 0
          /\ read_buf_size = 0

\* ---------------------------------------------------------------------------
\* C13: a redirection-data message that arrives while the engine is still
\* consuming an earlier one whose view is still staked is rejected as a
\* defect: it is reported (g_critical), the engine is not entered for it, the
\* view and the dispatch in progress are left as they are, and nothing of it
\* is kept.
C13_ReentrantDispatchRejected ==
    [][(last'.op = "handle_msg" /\ last'.id = SPICE_MSG_SPICEVMC_DATA
          /\ dispatch.active /\ read_buf # 0) =>
        /\ last'.env = "rejected"
        /\ NumOf("usbredirhost_read_guest_data", calls') = 0
        /\ NumOf("g_critical", calls') = 1
        /\ UNCHANGED <<priv, env, ops, dispatch, usbPc, usbSeen>>]_vars

C13_Witness ==
    /\ last.op = "handle_msg"
    /\ last.id = SPICE_MSG_SPICEVMC_DATA
    /\ last.env = "rejected"
    /\ host # 0
    /\ dispatch.active
    /\ read_buf # 0
    /\ calls = <<"g_critical">>

\* ---------------------------------------------------------------------------
\* C14: in every state but Disconnected the channel holds one reference to
\* the device get_device returns and none to any other; in Disconnected it
\* has no device and every reference it took is released; no count ever
\* drops below its value before the first connect.
C14_OneDeviceReferenceUnlessDisconnected ==
    /\ state # "STATE_DISCONNECTED" =>
          /\ spice_usbredir_channel_get_device \in Devices
          /\ refcount = [d \in Devices |->
                            IF d = spice_usbredir_channel_get_device
                            THEN InitRef + 1 ELSE InitRef]
    /\ state = "STATE_DISCONNECTED" =>
          /\ spice_usbredir_channel_get_device = NULL
          /\ AllReleased
    /\ \A d \in Devices : refcount[d] >= InitRef

C14_Witness ==
    /\ state = "STATE_DISCONNECTING"
    /\ spice_usbredir_channel_get_device = "d2"
    /\ refcount["d2"] = InitRef + 1
    /\ refcount["d1"] = InitRef

\* position of the first c in sq, 0 when there is none
Pos(c, sq) ==
    IF NumOf(c, sq) = 0 THEN 0
    ELSE CHOOSE k \in 1..Len(sq) :
            sq[k] = c /\ \A j \in 1..(k - 1) : sq[j] # c

\* ---------------------------------------------------------------------------
\* C15: a disconnect from Connecting or Connected stops the event pump, then
\* closes the engine, then releases the device, each once, and leaves the
\* state Disconnected; no handler closes the engine after it released the
\* device, or closes it before stopping a pump that is registered.
C15_TeardownOrder ==
    /\ (last.op = "disconnect"
          /\ last.pre \in {"STATE_CONNECTING", "STATE_CONNECTED"}) =>
          /\ NumOf("stop_event_listening", calls) = 1
          /\ NumOf("usbredirhost_close", calls) = 1
          /\ NumOf("libusb_unref_device", calls) = 1
          /\ Pos("stop_event_listening", calls) < Pos("usbredirhost_close", calls)
          /\ Pos("usbredirhost_close", calls) < Pos("libusb_unref_device", calls)
          /\ state = "STATE_DISCONNECTED"
          /\ host = 0 /\ device = NULL /\ listening = 0
    /\ \A i, j \in 1..Len(calls) :
          (calls[i] = "libusb_unref_device" /\ calls[j] = "usbredirhost_close")
              => j < i
    /\ NumOf("usbredirhost_close", calls) > 0 =>
          \/ /\ NumOf("stop_event_listening", calls) = 1
             /\ Pos("stop_event_listening", calls) < Pos("usbredirhost_close", calls)
          \/ /\ last.op \in {"connect", "acl_cb"}
             /\ NumOf("start_event_listening", calls) = 1
             /\ listening = 0

C15_Witness ==
    /\ last.op = "disconnect"
    /\ last.pre = "STATE_CONNECTED"
    /\ calls = <<"spice_channel_disconnect", "stop_event_listening",
                 "usbredirhost_close", "libusb_unref_device">>
    /\ state = "STATE_DISCONNECTED"

\* ---------------------------------------------------------------------------
\* C16: channel_up in Connecting sets Connected and flushes the engine once,
\* changing nothing else; in every other state it changes nothing and calls
\* no engine function.
C16_ChannelUpOnlyInConnecting ==
    [][last'.op = "channel_up" =>
        IF state = "STATE_CONNECTING"
        THEN /\ state' = "STATE_CONNECTED"
             /\ calls' = <<"usbredirhost_write_guest_data">>
             /\ UNCHANGED <<context, device, host, result, acl_helper,
                            read_buf, read_buf_size, env, ops, dispatch>>
        ELSE /\ UNCHANGED <<priv, env, ops, dispatch, usbPc, usbSeen>>
             /\ NumOf("usbredirhost_write_guest_data", calls') = 0
             /\ NumOf("usbredirhost_read_guest_data", calls') = 0
             /\ NumOf("usbredirhost_close", calls') = 0]_vars

C16_Witness ==
    /\ last.op = "channel_up"
    /\ last.pre = "STATE_CONNECTED"
    /\ state = "STATE_CONNECTED"
    /\ calls = <<"g_critical">>

\* ---------------------------------------------------------------------------
\* C17: on every branch of the grant callback the acl helper is closed and
\* dropped and the keyboard-grab inhibition is switched off before the
\* completion is scheduled; the inhibition is on only in
\* WaitingForAccessGrant and Disconnecting.
C17_HelperReleasedBeforeCompletion ==
    /\ inhibit => state \in {"STATE_WAITING_FOR_ACL_HELPER", "STATE_DISCONNECTING"}
    /\ last.op = "acl_cb" =>
          /\ NumOf("close_acl", calls) = 1
          /\ NumOf("inhibit_keyboard_grab_FALSE", calls) = 1
          /\ NumOf("complete_in_idle", calls) = 1
          /\ Pos("close_acl", calls) < Pos("complete_in_idle", calls)
          /\ Pos("inhibit_keyboard_grab_FALSE", calls) < Pos("complete_in_idle", calls)
          /\ acl_helper = 0
          /\ aclReq = NoAcl
          /\ ~inhibit

C17_Witness ==
    /\ last.op = "acl_cb"
    /\ last.pre = "STATE_WAITING_FOR_ACL_HELPER"
    /\ last.env = "listen_fail"
    /\ acl_helper = 0
    /\ ~inhibit
    /\ InQueue(last.id)

\* ---------------------------------------------------------------------------
\* C18 (as stated): the view is non-empty only while a dispatch is in
\* progress, whatever the engine read before it returned.
C18_ViewEmptyOutsideDispatch ==
    ~dispatch.active => (read_buf = 0 /\ read_buf_size = 0)

\* ---------------------------------------------------------------------------
\* C19 (as stated): a message of any type other than redirection data, below
\* or beyond the handler table, is handed to the parent's handler.
C19_UnrecognizedGoesToParent ==
    (last.op = "handle_msg" /\ last.id # SPICE_MSG_SPICEVMC_DATA) =>
        calls = <<"parent_handle_msg">>

\* C19 (amended): a redirection-data message goes to usbredir_handle_msg and
\* never to the parent; a type inside the handler table that has no entry
\* goes to the parent's handler; a type beyond the table fails the range
\* test, is reported and goes to no handler.
C19_RoutingByTable ==
    last.op = "handle_msg" =>
        IF last.id = SPICE_MSG_SPICEVMC_DATA
        THEN /\ last.env \in {"dispatched", "rejected"}
             /\ NumOf("parent_handle_msg", calls) = 0
             /\ last.env = "dispatched" =>
                   calls = <<"usbredirhost_read_guest_data">>
        ELSE IF last.id < N_usbredir_handlers
        THEN /\ last.env = "parent_handle_msg"
             /\ calls = <<"parent_handle_msg">>
        ELSE /\ last.env = "g_return_if_fail"
             /\ calls = <<"g_critical">>

C19_Witness ==
    /\ last.op = "handle_msg"
    /\ last.id >= N_usbredir_handlers
    /\ last.env = "g_return_if_fail"
    /\ calls = <<"g_critical">>

\* ---------------------------------------------------------------------------
\* C20: the channel has one event-pump registration in Connecting and
\* Connected and none in any other state; stop_event_listening is called
\* only by a disconnect from Connecting or Connected, once, and so never
\* after a failed registration and never on a disconnect from
\* WaitingForAccessGrant.
C20_PumpRegistrationBalanced ==
    /\ listening = IF state \in {"STATE_CONNECTING", "STATE_CONNECTED"}
                   THEN 1 ELSE 0
    /\ NumOf("stop_event_listening", calls) <= 1
    /\ NumOf("stop_event_listening", calls) = 1 =>
          /\ last.op = "disconnect"
          /\ last.pre \in {"STATE_CONNECTING", "STATE_CONNECTED"}

C20_Witness ==
    /\ last.op = "disconnect"
    /\ last.pre = "STATE_CONNECTING"
    /\ NumOf("stop_event_listening", calls) = 1
    /\ listening = 0

====
